---- MODULE Spec2Model ----
(***************************************************************************)
(* Nested partial-update engine of the Thea Manager backend: bulk updates  *)
(* of scopes, issues, milestones, reports, discussions and document        *)
(* requests inside one project aggregate, the diff engine and the audit    *)
(* (Workflows) log.                                                         *)
(*                                                                         *)
(* Every call of the store client (read_single_item, update_item,          *)
(* create_item) is one atomic step of an invocation; invocations           *)
(* interleave between store calls.                                         *)
(***************************************************************************)
EXTENDS Integers, Sequences, FiniteSets, TLC

(* ---------------------------- bounds ----------------------------------- *)
MaxLen == 2       \* longest batch of a sequential invocation
MaxConcLen == 1   \* longest batch of each of two concurrent invocations
MaxDay == 1       \* the calendar advances from day 0 up to this day
MaxFields == 2    \* most fields of a map handed to the diff engine alone
MaxSkipLen == 3   \* longest batch that mixes stored and absent entities
MaxOps == 2         \* single-item operations served one after the other
MaxIdLen == 2       \* pieces of a caller-supplied ID ("a.issues.b" has 3)

Invocations == {1, 2}

(* ---------------------------- values ----------------------------------- *)
\* A JSON value with its Python type: <<"str", text>> for a str
Str(s) == <<"str", s>>
isinstance_str(v) == v[1] = "str"

\* values that are not text: a number, a boolean, a list, a map
Number(n) == <<"number", n>>
Bool(b) == <<"bool", b>>
EmptyList == <<"list", "[]">>
EmptyMap == <<"map", "{}">>

\* an equality test that only text values can pass
PyEqTextOnly(a, b) == isinstance_str(a) /\ isinstance_str(b) /\ a = b

\* Python's old == new on two values: alike, or the boolean true / false
\* against the number 1 / 0
PyEq(a, b) ==
  \/ a = b
  \/ {a, b} = {Number("1"), Bool("true")}
  \/ {a, b} = {Number("0"), Bool("false")}

\* str(date.today()) for the days of the model's calendar
DateText(d) ==
  CASE d = 0 -> "2021-06-01"
    [] d = 1 -> "2021-06-02"
    [] d = 2 -> "2021-06-03"
    [] OTHER -> "2021-06-04"

None == [none |-> TRUE]          \* Python None / an empty "Item"

(* ---------------------------- entity kinds ----------------------------- *)
BulkKinds == {"scope", "issue", "milestone", "report", "discussion"}
Kinds == BulkKinds \cup {"docreq"}      \* kinds updated in batches

\* the key of the entity's own ID inside an item
IdKey(kind) ==
  CASE kind = "scope" -> "scopeId"
    [] kind = "issue" -> "issueId"
    [] kind = "milestone" -> "milestoneId"
    [] kind = "report" -> "reportId"
    [] kind = "discussion" -> "discussionId"
    [] kind = "docreq" -> "docReqId"

\* kinds nested inside a scope
InScope(kind) == kind \in {"issue", "milestone", "report"}

Collection(kind) ==
  CASE kind = "issue" -> "issues"
    [] kind = "milestone" -> "milestones"
    [] kind = "report" -> "reports"
    [] kind = "discussion" -> "discussions"
    [] kind = "docreq" -> "dataroom"
    [] kind = "scope" -> "scopes"

\* the timestamp key each service stamps on the item before the update
StampKey(kind) ==
  IF kind \in {"scope", "report"} THEN "lastUpdated" ELSE "lastUpdate"

\* the attributes update_project_info reads of the aggregate
ProjectProjection ==
  {"projectId", "code", "projectName", "projectType", "type", "businessUnit",
   "clientLead", "projectOwner", "consultingPartners", "status", "startDate",
   "endDate", "budgetedCost", "currency", "lastUpdated"}

\* the path of the aggregate's own attributes
Root == <<>>

\* keys every item of a kind must carry (item["scopeId"], item["issueId"])
IdKeys(kind) == IF InScope(kind) THEN {"scopeId", IdKey(kind)} ELSE {IdKey(kind)}

\* the ID the service appends to success / fail and uses as typeId
EntityId(kind, item) == item[IdKey(kind)][2]

\* projection_expression f"scopes.{scope_id}.issues.{issues_id}" as the
\* list of its path components
Path(kind, item) ==
  CASE kind = "scope" -> <<"scopes", item["scopeId"][2]>>
    [] InScope(kind) ->
         <<"scopes", item["scopeId"][2], Collection(kind), item[IdKey(kind)][2]>>
    [] OTHER -> <<Collection(kind), item[IdKey(kind)][2]>>

(* ---------------------------- diff engine ------------------------------ *)
\* spelling of the field names the model uses, one character per element
Chars(k) ==
  CASE k = "criticality" -> <<"c","r","i","t","i","c","a","l","i","t","y">>
    [] k = "dueDate" -> <<"d","u","e","D","a","t","e">>
    [] k = "DueDate" -> <<"D","u","e","D","a","t","e">>
    [] k = "lastUpdate" -> <<"l","a","s","t","U","p","d","a","t","e">>
    [] k = "lastUpdated" -> <<"l","a","s","t","U","p","d","a","t","e","d">>
    [] k = "scopeId" -> <<"s","c","o","p","e","I","d">>
    [] k = "issueId" -> <<"i","s","s","u","e","I","d">>
    [] k = "milestoneId" -> <<"m","i","l","e","s","t","o","n","e","I","d">>
    [] k = "reportId" -> <<"r","e","p","o","r","t","I","d">>
    [] k = "discussionId" -> <<"d","i","s","c","u","s","s","i","o","n","I","d">>
    [] k = "docReqId" -> <<"d","o","c","R","e","q","I","d">>
    [] k = "projectId" -> <<"p","r","o","j","e","c","t","I","d">>
    [] k = "customerId" -> <<"c","u","s","t","o","m","e","r","I","d">>
    [] k = "status" -> <<"s","t","a","t","u","s">>
    [] OTHER -> <<k>>

ToLower(c) ==
  CASE c = "D" -> "d" [] c = "U" -> "u" [] c = "I" -> "i" [] c = "R" -> "r"
    [] OTHER -> c

IsUpper(c) == ToLower(c) # c

\* sub(r'(?<!^)(?=[A-Z])', ' ', k).lower()
RECURSIVE CamelFrom(_, _)
CamelFrom(cs, i) ==
  IF i > Len(cs) THEN <<>>
  ELSE (IF i > 1 /\ IsUpper(cs[i]) THEN <<" ">> ELSE <<>>)
       \o <<ToLower(cs[i])>> \o CamelFrom(cs, i + 1)

Label(k) == CamelFrom(Chars(k), 1)

get_common_keys(dict_a, dict_b) == DOMAIN dict_a \cap DOMAIN dict_b

\* keys excluded from the comparison
ExcludedKeys == {"scopeId", "issueId", "projectId", "milestoneId"}

\* a message without values only when neither value is text
DiffMessageBothNotText(dict_a, dict_b, k) ==
  IF ~isinstance_str(dict_a[k]) /\ ~isinstance_str(dict_b[k])
  THEN <<Label(k)>>
  ELSE <<Label(k), dict_a[k][2], dict_b[k][2]>>

\* the message of one changed key
DiffMessage(dict_a, dict_b, k) ==
  IF ~isinstance_str(dict_a[k]) \/ ~isinstance_str(dict_b[k])
  THEN <<Label(k)>>
  ELSE <<Label(k), dict_a[k][2], dict_b[k][2]>>

\* the keys the loop does not skip: shared, not excluded, old == new false
ChangedKeys(dict_a, dict_b) ==
  { x \in get_common_keys(dict_a, dict_b) :
      x \notin ExcludedKeys /\ ~PyEq(dict_a[x], dict_b[x]) }

\* list(set(message)): the set of messages of the changed shared keys
generate_differences_message(dict_a, dict_b) ==
  { DiffMessage(dict_a, dict_b, k) : k \in ChangedKeys(dict_a, dict_b) }

\* list(S) of a Python set S: its elements, each once, in some order
RECURSIVE ListOfSet(_)
ListOfSet(S) ==
  IF S = {} THEN <<>>
  ELSE LET x == CHOOSE y \in S : TRUE IN <<x>> \o ListOfSet(S \ {x})

\* the list the loop builds with message.append: one message per changed
\* key, in the order of list(set(keys))
RECURSIVE MessagesOf(_, _, _)
MessagesOf(dict_a, dict_b, keys) ==
  IF keys = <<>> THEN <<>>
  ELSE <<DiffMessage(dict_a, dict_b, Head(keys))>>
         \o MessagesOf(dict_a, dict_b, Tail(keys))

\* a loop that also reports the fields only the proposed map has
AppendedMessagesWithAdded(dict_a, dict_b) ==
  MessagesOf(dict_a, dict_b, ListOfSet(ChangedKeys(dict_a, dict_b)))
    \o MessagesOf(dict_b, [k \in DOMAIN dict_b |-> EmptyMap],
                  ListOfSet(DOMAIN dict_b \ DOMAIN dict_a))

AppendedMessages(dict_a, dict_b) ==
  MessagesOf(dict_a, dict_b, ListOfSet(ChangedKeys(dict_a, dict_b)))

\* a return statement that hands the appended list back as it is
UniqueListKeepsAll(message) == message

\* return list(set(message))
UniqueList(message) == ListOfSet({ message[j] : j \in DOMAIN message })

\* the list generate_differences_message returns
ReturnedMessages(dict_a, dict_b) == UniqueList(AppendedMessages(dict_a, dict_b))

(* ---------------------------- store ------------------------------------ *)
\* outcomes of one call of the store client
Raises == {"ValidationException", "ProvisionedThroughputExceededException"}
Outcomes == {"ok", "status400"} \cup Raises

\* services' exception_handler: exception type name -> returned pair
exception_handler(e) ==
  CASE e = "ResourceNotFoundException" -> <<"Organization ID Not Found", 404>>
    [] e = "ValidationException" -> <<"Invalid path ID", 400>>
    [] e = "MessageRejected" -> <<"Email message rejected", 400>>
    [] e = "ValueError" -> <<"Project ID Not found", 404>>
    [] OTHER -> <<e, 500>>

\* a classifier whose final branch keeps the default value 200
ClassifyKeepsDefault(success, fail) ==
  IF Len(success) >= 1 /\ Len(fail) = 0 THEN 200
  ELSE IF Len(success) = 0 /\ Len(fail) >= 1 THEN 403
  ELSE IF Len(success) >= 1 /\ Len(fail) >= 1 THEN 405
  ELSE 200

\* Batch Outcome Classifier: the status code of a (success, fail) pair
Classify(success, fail) ==
  IF Len(success) >= 1 /\ Len(fail) = 0 THEN 200
  ELSE IF Len(success) = 0 /\ Len(fail) >= 1 THEN 403
  ELSE IF Len(success) >= 1 /\ Len(fail) >= 1 THEN 405
  ELSE 304


(* ---------------------------- aggregate -------------------------------- *)
\* read_single_item: the entity at the projected path, None when the
\* projection is empty
read_single_item(d, path) == IF path \in DOMAIN d THEN d[path] ELSE None

\* the item put in the place of the stored field map (SET path = :item)
MergedReplaces(entity, item) == item

\* the item's values laid over the stored field map (SET path.#k = :k for
\* every key k of the item), the other fields kept
Merged(entity, item) ==
  [k \in DOMAIN entity \cup DOMAIN item |->
     IF k \in DOMAIN item THEN item[k] ELSE entity[k]]

\* a conditional write: accepted only while the stored entity is still the
\* one the caller read
ConditionSnapshotUnchanged(stored, previous) == stored = previous

\* the services pass no ConditionExpression to update_item: the write is
\* accepted whatever the caller read before and whatever is stored now
ConditionHolds(stored, previous) == TRUE

\* a read-modify-write of the whole entity: the caller's snapshot with the
\* item laid over it replaces what is stored
update_item_overwrites(d, path, item, previous) ==
  [d EXCEPT ![path] = Merged(previous, item)]

\* update_item: the merge is applied to whatever is stored at the path when
\* the call arrives; the snapshot the caller read (previous) plays no part
update_item(d, path, item, previous) ==
  [d EXCEPT ![path] = Merged(@, item)]

\* item[stamp] = str(date.today())
Stamped(kind, item, day) ==
  [k \in DOMAIN item \cup {StampKey(kind)} |->
     IF k = StampKey(kind) THEN Str(DateText(day)) ELSE item[k]]

(* ---------------------------- audit log -------------------------------- *)
\* get_token_claims: the unverified claims of the credential
Claims(token) ==
  [email |-> "ann@example.com", name |-> "Ann", username |-> token]

\* a Workflows table keyed by the entity the record is about
WorkflowKeyByType(record) == record.typeId

\* the key under which create_item puts a workflow record
WorkflowKey(record) == record.itemId

\* the decimal digits of a natural number, the most significant first
RECURSIVE Digits(_)
Digits(n) == IF n < 10 THEN <<n>> ELSE Append(Digits(n \div 10), n % 10)

\* time() at the start of the model's day 0 (2021-06-01), in seconds
Epoch == 1622505600

\* str(time()) on a day of the model's calendar
str_time(day) == Digits(Epoch + 86400 * day)

\* Python's a <= b on two strings of digits: character by character, a
\* proper prefix first
RECURSIVE StrLeq(_, _)
StrLeq(a, b) ==
  IF a = <<>> THEN TRUE
  ELSE IF b = <<>> THEN FALSE
  ELSE IF a[1] # b[1] THEN a[1] < b[1]
  ELSE StrLeq(Tail(a), Tail(b))

\* Workflows.update_workflows: the record of one mutation, stamped with the
\* text of the clock's reading
update_workflows(jwt, action, message, project_id, item_id, uuid4, time) ==
  [itemId |-> uuid4, meta |-> message, action |-> action, typeId |-> item_id,
   projectId |-> project_id, email |-> Claims(jwt).email,
   name |-> Claims(jwt).name, username |-> Claims(jwt).username,
   timestamp |-> str_time(time)]

\* create_item: put_item of the record under its key
create_item(table, record) ==
  [k \in DOMAIN table \cup {WorkflowKey(record)} |->
     IF k = WorkflowKey(record) THEN record ELSE table[k]]

(* ---------------------------- inputs ----------------------------------- *)
ProjectId == "p1"
Token == "ann"                    \* a credential signed by the user pool
ForgedToken == "mallory"          \* a well-formed JWT with a bad signature
Tokens == {Token, ForgedToken}
ScopeIds == {"s1", "s2"}          \* scopes stored in the aggregate
EntityIds == {"e1", "e2"}         \* entities stored in each collection
AbsentId == "zz"                  \* an ID stored nowhere
OldDue == "2021-07-01"
NewDue == "2021-08-01"

\* the ID part of an item
IdPart(kind, id) ==
  IF kind = "scope" THEN ("scopeId" :> Str(id))
  ELSE IF InScope(kind) THEN ("scopeId" :> Str("s1")) @@ (IdKey(kind) :> Str(id))
  ELSE (IdKey(kind) :> Str(id))

StoredIds(kind) == IF kind = "scope" THEN ScopeIds ELSE EntityIds

\* the key creation stamps with the creation date, "" when it stamps none
CreateStampKey(kind) ==
  CASE kind \in {"scope", "issue"} -> "lastUpdated"
    [] kind = "report" -> "lastUpdate"
    [] OTHER -> ""

\* an entity as stored after creation on day 0, and after one update on
\* day 0 when updatedBefore
InitialEntity(kind, id, updatedBefore) ==
  LET base == IdPart(kind, id) @@ ("criticality" :> Str("low"))
                @@ ("dueDate" :> Str(OldDue))
      made == IF CreateStampKey(kind) = "" THEN base
              ELSE base @@ (CreateStampKey(kind) :> Str(DateText(0)))
  IN IF updatedBefore THEN Stamped(kind, made, 0) ELSE made

\* the aggregate's own attributes after create_new_project on day 0, and
\* after one update_project_info on day 0 when updatedBefore
InitialProject(updatedBefore) ==
  LET made == ("projectId" :> Str("p1")) @@ ("customerId" :> Str("c1"))
                @@ ("status" :> Str("active"))
                @@ ("lastUpdated" :> Str(DateText(0)))
  IN IF updatedBefore THEN Stamped("project", made, 0) ELSE made

InitialDoc(updatedBefore) ==
  LET paths == { Path(kd[1], IdPart(kd[1], kd[2])) :
                   kd \in { x \in Kinds \X (ScopeIds \cup EntityIds) :
                              x[2] \in StoredIds(x[1]) } }
      owner(p) == CHOOSE kd \in Kinds \X (ScopeIds \cup EntityIds) :
                    kd[2] \in StoredIds(kd[1]) /\ Path(kd[1], IdPart(kd[1], kd[2])) = p
  IN [p \in paths \cup {Root} |->
       IF p = Root THEN InitialProject(updatedBefore)
       ELSE InitialEntity(owner(p)[1], owner(p)[2], updatedBefore)]

\* business fields a sequential caller sends: a change of criticality with
\* the due date repeated, and a repetition of the stored values
SeqPayloads ==
  { ("criticality" :> Str("high")) @@ ("dueDate" :> Str(OldDue)),
    ("criticality" :> Str("low")) @@ ("dueDate" :> Str(OldDue)) }

\* business fields concurrent callers send
ConcPayloads ==
  { ("criticality" :> Str("high")),
    ("criticality" :> Str("medium")),
    ("dueDate" :> Str(NewDue)) }

FirstId(kind) == IF kind = "scope" THEN "s1" ELSE "e1"
SecondId(kind) == IF kind = "scope" THEN "s2" ELSE "e2"

SeqItems(kind) ==
  { IdPart(kind, FirstId(kind)) @@ p : p \in SeqPayloads }
    \cup { IdPart(kind, SecondId(kind)) @@ ("criticality" :> Str("high")) }
    \cup { IdPart(kind, AbsentId) }

ConcItems(kind) == { IdPart(kind, FirstId(kind)) @@ p : p \in ConcPayloads }

\* a batch that mixes stored and absent entities
SkipItems(kind) ==
  { IdPart(kind, id) @@ ("criticality" :> Str("high")) :
      id \in EntityIds \cup {AbsentId} }

\* the table of the customer without the project: no path resolves
NoProject == [p \in {} |-> None]

\* items of update_project_info
ProjectItems ==
  { ("status" :> Str("closed")), ("status" :> Str("active")),
    ("projectId" :> Str("p2")), ("customerId" :> Str("c2")) }

\* inputs of get_workflows
QueryTypeIds == {"e1"}
QueryActions == { {}, {"Create"} }

\* every identifier key of an entity or of one of its ancestors
AllIdKeys ==
  {"scopeId", "issueId", "milestoneId", "reportId", "discussionId",
   "docReqId", "projectId", "customerId"}

\* field names and values of the maps handed to the diff engine alone
DiffKeys == {"dueDate", "DueDate", "scopeId", "reportId"}
DiffValues == {Str("low"), Str("high"), Number("1"), EmptyList}
AllValues == DiffValues \cup {Number("2"), Bool("true"), EmptyMap}

\* all maps of at most n of the keys to the values
Maps(keys, values, n) ==
  UNION { [K -> values] : K \in { S \in SUBSET keys : Cardinality(S) <= n } }

\* argument pairs of generate_differences_message: any two small maps, one
\* identifier key with two values, one field with values of every type
DiffInputs ==
  (Maps(DiffKeys, DiffValues, MaxFields) \X Maps(DiffKeys, DiffValues, MaxFields))
    \cup { <<(k :> x), (k :> y)>> :
             k \in AllIdKeys, x \in {Str("a"), Str("b")}, y \in {Str("a"), Str("b")} }
    \cup { <<("criticality" :> x), ("criticality" :> y)>> :
             x \in AllValues, y \in AllValues }

\* all lists of at most n elements of S
Batches(S, n) == UNION { [1..m -> S] : m \in 0..n }


(* ---------------------------- state ------------------------------------ *)
VARIABLES
  doc,        \* the project aggregate: nested path -> stored field map
  workflows,  \* the Workflows table: itemId -> audit record
  today,      \* the wall clock, in days
  uuid,       \* number of itemIds generated so far
  call,       \* per invocation: position and local variables
  listing,    \* the last result of get_workflows
  updates,    \* per invocation: its update_item calls, in order, each with
              \* the item sent, the snapshot read before and whether the
              \* store applied it
  appended,   \* per invocation: itemIds of the records it appended
  faulted,    \* per invocation: the first store call of it that failed
  writes,     \* all applied merge-updates, in the order the store applied them
  diffcall,   \* one call of generate_differences_message: its two
              \* arguments and, once it has returned, its result
  pathcall,   \* two (scopeId, entityId) tuples of one kind and, once built,
              \* the nested path string of each
  op          \* the single-item operations served so far: how many, and the
              \* arguments and the return value of the last one

vars == <<doc, workflows, today, uuid, call, listing, updates, appended,
          faulted, writes, diffcall, pathcall, op>>

Idle ==
  [pc |-> "idle", kind |-> "issue", items |-> <<>>, i |-> 1,
   previous_item |-> None, item |-> None, http_status_code |-> 200,
   token |-> Token,
   success |-> <<>>, fail |-> <<>>,
   result |-> [tag |-> "none", success |-> <<>>, fail |-> <<>>, code |-> 0]]

\* the diff engine is not called on its own
NoDiffCall == [pc |-> "none", dict_a |-> <<>>, dict_b |-> <<>>,
               message |-> <<>>, audit |-> FALSE]

\* no nested path is being built
NoPathCall == [pc |-> "none", kind |-> "issue", first |-> <<>>, second |-> <<>>,
               paths |-> <<>>]

\* no single-item operation has been served
NoOp == [n |-> 0, name |-> "none", scope_id |-> <<>>, object_id |-> <<>>,
         body |-> <<>>, env |-> {}, value |-> None, applied |-> FALSE,
         audit |-> 0, pair |-> TRUE, response |-> "", code |-> 0]

\* nothing has run yet on the aggregate d
Fresh(d) ==
  /\ doc = d
  /\ workflows = <<>>
  /\ today = 0
  /\ uuid = 0
  /\ call = [c \in Invocations |-> Idle]
  /\ listing = <<>>
  /\ updates = [c \in Invocations |-> <<>>]
  /\ appended = [c \in Invocations |-> {}]
  /\ faulted = [c \in Invocations |-> "none"]
  /\ writes = <<>>

\* the entities are as created, or were updated on day 0
Init ==
  /\ \E updatedBefore \in BOOLEAN : Fresh(InitialDoc(updatedBefore))
  /\ diffcall = NoDiffCall /\ pathcall = NoPathCall /\ op = NoOp

\* the entities are as created
InitConc == Fresh(InitialDoc(FALSE)) /\ diffcall = NoDiffCall /\ pathcall = NoPathCall /\ op = NoOp

\* the wrapped service method raised e: exception_handler turns it into the
\* returned pair
Raised(c, e) ==
  [call[c] EXCEPT !.pc = "done",
     !.result = [tag |-> "error", success |-> <<>>, fail |-> <<>>,
                 code |-> exception_handler(e)[2]]]

\* remember the first store call of the invocation that did not succeed
Fault(c, o, step) ==
  faulted' = [faulted EXCEPT ![c] = IF o # "ok" /\ @ = "none" THEN step ELSE @]

\* an audit append that does not look at the diff
ShouldAuditAlways(message) == TRUE

\* the services write the audit record only for a non-empty diff
\* (if message:)
ShouldAudit(message) == message # {}

\* a loop that sends absent entities on to the merge-update
SkipsNever(previous_item) == FALSE

\* if not previous_item: continue
Skips(previous_item) == previous_item = None

(* ---------------------------- bulk updates ----------------------------- *)
\* update_existing_issue / update_existing_milestone / update_scope_details /
\* update_existing_reports / update_discussion_details: entry and the
\* existence read of "projectId"
Enter(c, kind, items, o, token) ==
  /\ call[c].pc = "idle"
  /\ kind \in BulkKinds
  /\ o \in {"ok", "ResourceNotFoundException"} \cup Raises
  /\ call' = [call EXCEPT ![c] =
       IF o = "ok"
       THEN [Idle EXCEPT !.pc = "loop", !.kind = kind, !.items = items,
               !.token = token]
       ELSE [Raised(c, o) EXCEPT !.kind = kind, !.items = items,
               !.token = token]]
  /\ Fault(c, o, "exists")
  /\ UNCHANGED <<pathcall, op, diffcall, doc, workflows, today, uuid, listing, updates, appended, writes>>

\* the service called with the credential of a signed-in user
BulkUpdateStart(c, kind, items, o) == Enter(c, kind, items, o, Token)

\* validate_token: "Authorized" for a credential whose signature and claims
\* verify
validate_token(access_token) ==
  IF access_token = Token THEN <<"Authorized", 200>>
  ELSE <<"Invalid token signature", 403>>

\* the routes carry "# @verify_access_token": every request passes
verify_access_token(token) == TRUE

\* route PATCH /issues/<customerId>/<projectId>: the "workflow-token" header
\* goes to update_existing_issue as token
update_issue(c, items, token) ==
  /\ verify_access_token(token)
  /\ Enter(c, "issue", items, "ok", token)

\* top of the for loop: read the previous item, skip the item when absent
BulkRead(c, o) ==
  LET k == call[c].kind
      it == call[c].items[call[c].i]
      previous == read_single_item(doc, Path(k, it))
  IN /\ call[c].pc = "loop"
     /\ k \in BulkKinds
     /\ call[c].i <= Len(call[c].items)
     /\ o \in {"ok"} \cup Raises
     /\ call' = [call EXCEPT ![c] =
          IF o # "ok" THEN Raised(c, o)
          ELSE IF Skips(previous)
               THEN [@ EXCEPT !.previous_item = previous, !.i = @ + 1]
               ELSE [@ EXCEPT !.previous_item = previous, !.pc = "update"]]
     /\ Fault(c, o, "read")
     /\ UNCHANGED <<pathcall, op, diffcall, doc, workflows, today, uuid, listing, updates, appended, writes>>

\* stamp the item and merge-update it
BulkUpdate(c, o) ==
  LET k == call[c].kind
      it == Stamped(k, call[c].items[call[c].i], today)
      path == Path(k, it)
      accepted == o = "ok" /\ path \in DOMAIN doc
                    /\ ConditionHolds(doc[path], call[c].previous_item)
      exc == IF o \in Raises THEN o
             ELSE IF path \notin DOMAIN doc THEN "ValidationException"
             ELSE "ConditionalCheckFailedException"
  IN /\ call[c].pc = "update"
     /\ k \in BulkKinds
     /\ o \in Outcomes
     /\ IF accepted
        THEN /\ doc' = update_item(doc, path, it, call[c].previous_item)
             /\ writes' = Append(writes, [by |-> c, path |-> path, item |-> it])
             /\ call' = [call EXCEPT ![c].item = it, ![c].pc = "audit",
                                     ![c].http_status_code = 200]
        ELSE /\ UNCHANGED <<doc, writes>>
             /\ call' = [call EXCEPT ![c] =
                  IF o = "status400"
                  THEN [@ EXCEPT !.item = it, !.pc = "audit",
                                 !.http_status_code = 400]
                  ELSE Raised(c, exc)]
     /\ updates' = [updates EXCEPT ![c] =
          Append(@, [item |-> it, previous |-> call[c].previous_item,
                     applied |-> accepted])]
     /\ Fault(c, o, "update")
     /\ UNCHANGED <<pathcall, op, diffcall, workflows, today, uuid, listing, appended>>

\* diff, audit append when the diff is not empty, then success / fail
BulkAudit(c, o) ==
  LET k == call[c].kind
      it == call[c].item
      id == EntityId(k, it)
      message == generate_differences_message(call[c].previous_item, it)
      workflow == update_workflows(call[c].token, "Update", message, ProjectId, id,
                                   uuid + 1, today)
      code == call[c].http_status_code
  IN /\ call[c].pc = "audit"
     /\ k \in BulkKinds
     /\ o \in Outcomes
     /\ ~ShouldAudit(message) => o = "ok"
     /\ IF ShouldAudit(message)
        THEN /\ uuid' = uuid + 1
             /\ IF o = "ok"
                THEN /\ workflows' = create_item(workflows, workflow)
                     /\ appended' = [appended EXCEPT ![c] = @ \cup {workflow.itemId}]
                ELSE UNCHANGED <<workflows, appended>>
        ELSE UNCHANGED <<uuid, workflows, appended>>
     /\ call' = [call EXCEPT ![c] =
          IF o \in Raises THEN Raised(c, o)
          ELSE IF 200 <= code /\ code < 300
               THEN [@ EXCEPT !.success = Append(@, id), !.i = @ + 1, !.pc = "loop"]
               ELSE [@ EXCEPT !.fail = Append(@, id), !.i = @ + 1, !.pc = "loop"]]
     /\ Fault(c, o, "audit")
     /\ UNCHANGED <<pathcall, op, diffcall, doc, today, listing, updates, writes>>

\* after the loop: the status code of the two lists
BulkReturn(c) ==
  /\ call[c].pc = "loop"
  /\ call[c].kind \in BulkKinds
  /\ call[c].i > Len(call[c].items)
  /\ call' = [call EXCEPT ![c].pc = "done",
       ![c].result = [tag |-> "batch", success |-> call[c].success,
                      fail |-> call[c].fail,
                      code |-> Classify(call[c].success, call[c].fail)]]
  /\ UNCHANGED <<pathcall, op, diffcall, doc, workflows, today, uuid, listing, updates, appended, faulted, writes>>

\* the calendar advances; a request completes within one day
Tick ==
  /\ today < MaxDay
  /\ \A c \in Invocations : call[c].pc = "idle"
  /\ today' = today + 1
  /\ UNCHANGED <<pathcall, op, diffcall, doc, workflows, uuid, call, listing, updates, appended, faulted, writes>>


(* ---------------------------- document requests ------------------------ *)
\* update_request_document_details: entry (no existence read)
DocUpdateStart(c, items) ==
  /\ call[c].pc = "idle"
  /\ call' = [call EXCEPT ![c] =
       [Idle EXCEPT !.pc = "loop", !.kind = "docreq", !.items = items]]
  /\ UNCHANGED <<pathcall, op, diffcall, doc, workflows, today, uuid, listing, updates, appended, faulted, writes>>

\* top of the for loop: bind item, read the previous item, skip when absent
DocRead(c, o) ==
  LET it == call[c].items[call[c].i]
      previous == read_single_item(doc, Path("docreq", it))
  IN /\ call[c].pc = "loop"
     /\ call[c].kind = "docreq"
     /\ call[c].i <= Len(call[c].items)
     /\ o \in {"ok"} \cup Raises
     /\ call' = [call EXCEPT ![c] =
          IF o # "ok" THEN Raised(c, o)
          ELSE IF previous = None
               THEN [@ EXCEPT !.previous_item = None, !.item = it, !.i = @ + 1]
               ELSE [@ EXCEPT !.previous_item = previous, !.item = it,
                              !.pc = "update"]]
     /\ Fault(c, o, "read")
     /\ UNCHANGED <<pathcall, op, diffcall, doc, workflows, today, uuid, listing, updates, appended, writes>>

\* stamp the item and merge-update it; the returned status is dropped
DocUpdate(c, o) ==
  LET it == Stamped("docreq", call[c].items[call[c].i], today)
      path == Path("docreq", it)
      accepted == o = "ok" /\ path \in DOMAIN doc
                    /\ ConditionHolds(doc[path], call[c].previous_item)
      exc == IF o \in Raises THEN o
             ELSE IF path \notin DOMAIN doc THEN "ValidationException"
             ELSE "ConditionalCheckFailedException"
  IN /\ call[c].pc = "update"
     /\ call[c].kind = "docreq"
     /\ o \in Outcomes
     /\ IF accepted
        THEN /\ doc' = update_item(doc, path, it, call[c].previous_item)
             /\ writes' = Append(writes, [by |-> c, path |-> path, item |-> it])
             /\ call' = [call EXCEPT ![c].item = it, ![c].pc = "loop",
                                     ![c].i = @ + 1]
        ELSE /\ UNCHANGED <<doc, writes>>
             /\ call' = [call EXCEPT ![c] =
                  IF o = "status400"
                  THEN [@ EXCEPT !.item = it, !.pc = "loop", !.i = @ + 1]
                  ELSE Raised(c, exc)]
     /\ updates' = [updates EXCEPT ![c] =
          Append(@, [item |-> it, previous |-> call[c].previous_item,
                     applied |-> accepted])]
     /\ Fault(c, o, "update")
     /\ UNCHANGED <<pathcall, op, diffcall, workflows, today, uuid, listing, appended>>

\* after the loop: one diff of the variables the last iteration left, one
\* audit append, and the returned message
DocAuditReturn(c, o) ==
  LET it == call[c].item
      message == generate_differences_message(call[c].previous_item, it)
      workflow == update_workflows(call[c].token, "Update", message, ProjectId,
                                   EntityId("docreq", it), uuid + 1, today)
      unbound == Len(call[c].items) = 0
      noprev == ~unbound /\ call[c].previous_item = None
      writing == ~unbound /\ ~noprev /\ ShouldAudit(message)
  IN /\ call[c].pc = "loop"
     /\ call[c].kind = "docreq"
     /\ call[c].i > Len(call[c].items)
     /\ o \in Outcomes
     /\ ~writing => o = "ok"
     /\ IF writing
        THEN /\ uuid' = uuid + 1
             /\ IF o = "ok"
                THEN /\ workflows' = create_item(workflows, workflow)
                     /\ appended' = [appended EXCEPT ![c] = @ \cup {workflow.itemId}]
                ELSE UNCHANGED <<workflows, appended>>
        ELSE UNCHANGED <<uuid, workflows, appended>>
     /\ call' = [call EXCEPT ![c] =
          IF unbound THEN Raised(c, "UnboundLocalError")
          ELSE IF noprev THEN Raised(c, "AttributeError")
          ELSE IF o \in Raises THEN Raised(c, o)
          ELSE [@ EXCEPT !.pc = "done",
                  !.result = [tag |-> "message", success |-> <<>>,
                              fail |-> <<>>, code |-> 200]]]
     /\ Fault(c, o, "audit")
     /\ UNCHANGED <<pathcall, op, diffcall, doc, today, listing, updates, writes>>

(* ---------------------------- project ---------------------------------- *)
\* a table whose key the store lets an update expression assign
KeyAttributesNone == {}

\* key = {"projectId": project_id, "customerId": customer_id}: the primary
\* key of the item; the store rejects an update expression that assigns one
\* of its attributes (ValidationException)
KeyAttributes == {"projectId", "customerId"}

\* the projected attributes of a stored field map
Projected(entity, keys) == [k \in DOMAIN entity \cap keys |-> entity[k]]

\* update_project_info: entry and the read of the previous attributes
ProjectUpdateStart(c, item, o) ==
  /\ call[c].pc = "idle"
  /\ o \in {"ok"} \cup Raises
  /\ call' = [call EXCEPT ![c] =
       IF o = "ok"
       THEN [Idle EXCEPT !.pc = "update", !.kind = "project", !.items = <<item>>,
               !.previous_item = Projected(doc[Root], ProjectProjection)]
       ELSE [Raised(c, o) EXCEPT !.kind = "project", !.items = <<item>>]]
  /\ Fault(c, o, "read")
  /\ UNCHANGED <<pathcall, op, diffcall, doc, workflows, today, uuid, listing, updates, appended, writes>>

\* stamp the item and merge-update the aggregate's attributes; the returned
\* status is dropped
ProjectUpdate(c, o) ==
  LET it == Stamped("project", call[c].items[1], today)
      accepted == /\ o = "ok"
                  /\ ConditionHolds(doc[Root], call[c].previous_item)
                  /\ DOMAIN it \cap KeyAttributes = {}
      exc == IF o \in Raises THEN o
             ELSE IF DOMAIN it \cap KeyAttributes # {} THEN "ValidationException"
             ELSE "ConditionalCheckFailedException"
  IN /\ call[c].pc = "update"
     /\ call[c].kind = "project"
     /\ o \in Outcomes
     /\ IF accepted
        THEN /\ doc' = update_item(doc, Root, it, call[c].previous_item)
             /\ writes' = Append(writes, [by |-> c, path |-> Root, item |-> it])
             /\ call' = [call EXCEPT ![c].item = it, ![c].pc = "audit"]
        ELSE /\ UNCHANGED <<doc, writes>>
             /\ call' = [call EXCEPT ![c] =
                  IF o = "status400" THEN [@ EXCEPT !.item = it, !.pc = "audit"]
                  ELSE Raised(c, exc)]
     /\ updates' = [updates EXCEPT ![c] =
          Append(@, [item |-> it, previous |-> call[c].previous_item,
                     applied |-> accepted])]
     /\ Fault(c, o, "update")
     /\ UNCHANGED <<pathcall, op, diffcall, workflows, today, uuid, listing, appended>>

\* diff, audit append when the diff is not empty, and the returned message
ProjectAuditReturn(c, o) ==
  LET message == generate_differences_message(call[c].previous_item, call[c].item)
      workflow == update_workflows(call[c].token, "Update", message, ProjectId,
                                   ProjectId, uuid + 1, today)
  IN /\ call[c].pc = "audit"
     /\ call[c].kind = "project"
     /\ o \in Outcomes
     /\ ~ShouldAudit(message) => o = "ok"
     /\ IF ShouldAudit(message)
        THEN /\ uuid' = uuid + 1
             /\ IF o = "ok"
                THEN /\ workflows' = create_item(workflows, workflow)
                     /\ appended' = [appended EXCEPT ![c] = @ \cup {workflow.itemId}]
                ELSE UNCHANGED <<workflows, appended>>
        ELSE UNCHANGED <<uuid, workflows, appended>>
     /\ call' = [call EXCEPT ![c] =
          IF o \in Raises THEN Raised(c, o)
          ELSE [@ EXCEPT !.pc = "done",
                  !.result = [tag |-> "message", success |-> <<>>,
                              fail |-> <<>>, code |-> 200]]]
     /\ Fault(c, o, "audit")
     /\ UNCHANGED <<pathcall, op, diffcall, doc, today, listing, updates, writes>>

(* ---------------------------- workflow viewer -------------------------- *)
\* the attributes get_workflows projects out of a record
WorkflowProjection ==
  {"itemId", "action", "name", "meta", "timestamp", "projectId", "typeId",
   "email", "userName"}

\* read_multiple_items on the typeId index, then the two filters
QueryWorkflows(table, type_id, actions) ==
  { Projected(table[k], WorkflowProjection) :
      k \in { x \in DOMAIN table :
                /\ table[x].typeId = type_id
                /\ actions # {} => table[x].action \in actions } }

\* the records in whatever order the query gave them
QueryOrder(S) ==
  { s \in [1..Cardinality(S) -> S] :
      \A i, j \in 1..Cardinality(S) : i # j => s[i] # s[j] }

\* the orders sorted(workflows, key=timestamp) can return: timestamps
\* non-decreasing as strings, records of equal timestamp in the order the
\* query gave them
SortedByTimestamp(S) ==
  { s \in [1..Cardinality(S) -> S] :
      /\ \A i, j \in 1..Cardinality(S) : i # j => s[i] # s[j]
      /\ \A i, j \in 1..Cardinality(S) :
           i < j => StrLeq(s[i].timestamp, s[j].timestamp) }

\* get_workflows
GetWorkflows(type_id, actions) ==
  /\ listing' \in SortedByTimestamp(QueryWorkflows(workflows, type_id, actions))
  /\ UNCHANGED <<pathcall, op, diffcall, doc, workflows, today, uuid, call, updates, appended,
                 faulted, writes>>

(* ---------------------------- diff engine alone ------------------------ *)
\* one call of generate_differences_message(dict_a, dict_b) and the
\* caller's "if message:" on the list it returns
Diff ==
  LET message == ReturnedMessages(diffcall.dict_a, diffcall.dict_b)
  IN /\ diffcall.pc = "called"
     /\ diffcall' = [diffcall EXCEPT !.pc = "returned", !.message = message,
          !.audit = ShouldAudit({ message[j] : j \in DOMAIN message })]
     /\ UNCHANGED <<pathcall, op, doc, workflows, today, uuid, call, listing,
                    updates, appended, faulted, writes>>

(* ---------------------------- specifications --------------------------- *)
\* one request at a time: one invocation of an update service with a batch
\* of up to MaxLen items, and get_workflows before or after it
Next ==
  \/ /\ call[1].pc = "idle"
     /\ \E kind \in BulkKinds : \E items \in Batches(SeqItems(kind), MaxLen) :
          \E o \in Outcomes : BulkUpdateStart(1, kind, items, o)
  \/ \E o \in Outcomes : BulkRead(1, o)
  \/ \E o \in Outcomes : BulkUpdate(1, o)
  \/ \E o \in Outcomes : BulkAudit(1, o)
  \/ BulkReturn(1)
  \/ /\ call[1].pc = "idle"
     /\ \E items \in Batches(SeqItems("docreq"), MaxLen) : DocUpdateStart(1, items)
  \/ \E o \in Outcomes : DocRead(1, o)
  \/ \E o \in Outcomes : DocUpdate(1, o)
  \/ \E o \in Outcomes : DocAuditReturn(1, o)
  \/ /\ call[1].pc = "idle"
     /\ \E item \in ProjectItems : \E o \in Outcomes : ProjectUpdateStart(1, item, o)
  \/ \E o \in Outcomes : ProjectUpdate(1, o)
  \/ \E o \in Outcomes : ProjectAuditReturn(1, o)
  \/ /\ call[1].pc \in {"idle", "done"}
     /\ \E type_id \in QueryTypeIds : \E actions \in QueryActions :
          GetWorkflows(type_id, actions)
  \/ Tick

Spec == Init /\ [][Next]_vars

\* two invocations at once on the same entities, batches of up to
\* MaxConcLen items
ConcKinds == {"issue", "milestone"}

\* store outcomes of the concurrent runs: success, or a raised store failure
ConcOutcomes == {"ok", "ProvisionedThroughputExceededException"}

NextConc ==
  \E c \in Invocations :
    \/ /\ call[c].pc = "idle"
       /\ \E kind \in ConcKinds : \E items \in Batches(ConcItems(kind), MaxConcLen) :
            \E o \in ConcOutcomes : BulkUpdateStart(c, kind, items, o)
    \/ \E o \in ConcOutcomes : BulkRead(c, o)
    \/ \E o \in ConcOutcomes : BulkUpdate(c, o)
    \/ \E o \in ConcOutcomes : BulkAudit(c, o)
    \/ BulkReturn(c)

SpecConc == InitConc /\ [][NextConc]_vars

\* one fault-free bulk update of milestones or issues, of up to MaxSkipLen
\* items, on the stored aggregate or on a table without the project; the
\* table itself may be missing (ResourceNotFoundException at the first read)
SkipKinds == {"milestone", "issue"}

InitSkip ==
  /\ \E d \in {InitialDoc(FALSE), NoProject} : Fresh(d)
  /\ diffcall = NoDiffCall /\ pathcall = NoPathCall /\ op = NoOp

NextSkip ==
  \/ /\ call[1].pc = "idle"
     /\ \E kind \in SkipKinds : \E items \in Batches(SkipItems(kind), MaxSkipLen) :
          \E o \in {"ok", "ResourceNotFoundException"} :
            BulkUpdateStart(1, kind, items, o)
  \/ BulkRead(1, "ok")
  \/ BulkUpdate(1, "ok")
  \/ BulkAudit(1, "ok")
  \/ BulkReturn(1)

SpecSkip == InitSkip /\ [][NextSkip]_vars

\* requests to PATCH /issues with the credential of a signed-in user or a
\* forged one, no store call failing
NextAuth ==
  \/ /\ call[1].pc = "idle"
     /\ \E items \in Batches(SkipItems("issue"), MaxLen) : \E token \in Tokens :
          update_issue(1, items, token)
  \/ BulkRead(1, "ok")
  \/ BulkUpdate(1, "ok")
  \/ BulkAudit(1, "ok")
  \/ BulkReturn(1)

SpecAuth == InitConc /\ [][NextAuth]_vars

\* the diff engine called on its own with every pair of DiffInputs
InitDiff ==
  /\ Fresh(InitialDoc(FALSE))
  /\ \E p \in DiffInputs :
       diffcall = [pc |-> "called", dict_a |-> p[1], dict_b |-> p[2],
                   message |-> <<>>, audit |-> FALSE]
  /\ pathcall = NoPathCall
  /\ op = NoOp

NextDiff == Diff

SpecDiff == InitDiff /\ [][NextDiff]_vars


\* one bulk update of any of the five kinds, of up to MaxLen items, whose
\* merge-updates are applied or answered with a status outside 200-299
NextFrame ==
  \/ /\ call[1].pc = "idle"
     /\ \E kind \in BulkKinds : \E items \in Batches(SeqItems(kind), MaxLen) :
          BulkUpdateStart(1, kind, items, "ok")
  \/ BulkRead(1, "ok")
  \/ \E o \in {"ok", "status400"} : BulkUpdate(1, o)
  \/ BulkAudit(1, "ok")
  \/ BulkReturn(1)

SpecFrame == InitConc /\ [][NextFrame]_vars

(* ---------------------------- nested path strings ---------------------- *)
\* A string is held as the list of the pieces its '.' characters separate
\* it into: "a" is <<"a">>, "a.issues.b" is <<"a", "issues", "b">>. Joining
\* pieces with '.' and splitting a string at '.' are inverse to each other,
\* so two strings are equal exactly when their lists of pieces are.

\* f"{x}.{y}"
Joined(x, y) == x \o y

\* a path that leaves out the scope: f"issues.{issues_id}"
projection_expression_unscoped(kind, scope_id, entity_id) ==
  Joined(<<Collection(kind)>>, entity_id)

\* projection_expression = f"scopes.{scope_id}.issues.{issues_id}", the
\* prefix of every term of the update expression too
projection_expression(kind, scope_id, entity_id) ==
  Joined(Joined(Joined(<<"scopes">>, scope_id), <<Collection(kind)>>), entity_id)

\* the kinds whose path is built from a scope ID and an entity ID
PathKinds == {"issue", "report"}

\* pieces of the IDs a caller sends: a plain name, and the name of the
\* collection
PathPieces(kind) == {"a", Collection(kind)}

\* item["scopeId"], item["issueId"]: any string of up to MaxIdLen pieces
PathIds(kind) == UNION { [1..n -> PathPieces(kind)] : n \in 1..MaxIdLen }

\* two items of one kind, each with its scopeId and its entity ID
InitPath ==
  /\ Fresh(InitialDoc(FALSE))
  /\ diffcall = NoDiffCall
  /\ op = NoOp
  /\ \E kind \in PathKinds :
       \E first, second \in PathIds(kind) \X PathIds(kind) :
         pathcall = [pc |-> "called", kind |-> kind, first |-> first,
                     second |-> second, paths |-> <<>>]

\* the path string of each of the two items
BuildPaths ==
  /\ pathcall.pc = "called"
  /\ pathcall' = [pathcall EXCEPT !.pc = "built",
       !.paths = << projection_expression(pathcall.kind, pathcall.first[1],
                                          pathcall.first[2]),
                    projection_expression(pathcall.kind, pathcall.second[1],
                                          pathcall.second[2]) >>]
  /\ UNCHANGED <<op, diffcall, doc, workflows, today, uuid, call, listing,
                 updates, appended, faulted, writes>>

NextPath == BuildPaths

SpecPath == InitPath /\ [][NextPath]_vars

(* ---------------------------- single-item operations ------------------- *)
\* IDs are the strings of the URL and of the request body, held as their
\* '.'-separated pieces
NewId == "e3"                     \* an issue ID not stored yet
NewScopeId == "s3"                \* a scope ID not stored yet
UserId == "u1"                    \* a team member of scope s1

\* <scopeId> of /issues/<customerId>/<projectId>/<scopeId>
OpScopeIds == { <<"s1">>, <<AbsentId>> }

\* "issueId" of the body, <issuesId> of the URL: a stored issue, a new one,
\* and a string with a '.'
OpIssueIds == { <<"e1">>, <<NewId>>, <<"e1", "criticality">> }

\* "scopeId" of the body of POST /scopes
NewScopeIds == { <<"s1">>, <<NewScopeId>>, <<NewScopeId, "issues">> }

\* bodies of POST /issues: the fields the route forwards, and one with a
\* "status" of the caller's own
IssueBodies ==
  LET forwarded == ("issueName" :> Str("n1")) @@ ("criticality" :> Str("high"))
                     @@ ("dueDate" :> Str(NewDue))
  IN { forwarded, forwarded @@ ("status" :> Str("closed")) }

\* one team member as the requests carry it
Member(id) ==
  ("userId" :> Str(id)) @@ ("name" :> Str("Ann")) @@ ("email" :> Str("ann@example.com"))

\* team_members of a request: none, or the member of scope s1
TeamMembers == { <<>>, <<Member(UserId)>> }

\* lists of issue IDs of DELETE /issues
IssueLists == { <<>>, <<"e1">>, <<"e1", "e2">> }

\* outcomes of the calls an operation makes: the reads, the mail service,
\* the aggregate write, the audit append
ReadOutcomes == {"ok", "ProvisionedThroughputExceededException"}
EmailOutcomes == {"ok", "MessageRejected"}
WriteOutcomes == {"ok", "status400", "ProvisionedThroughputExceededException"}

\* the aggregate the operations run on: the stored entities, scope s1 with
\* one team member
CreateDoc ==
  LET member == <<"scopes", "s1", "teamMembers", UserId>>
      d == InitialDoc(FALSE)
  IN [p \in DOMAIN d \cup {member} |-> IF p = member THEN Member(UserId) ELSE d[p]]

\* ":" + ID is a value placeholder of an update expression only when the ID
\* is one run of letters and digits
ValidPlaceholder(id) == Len(id) = 1

\* the path whose attribute names are the IDs taken literally (#scopeId,
\* #IssueId): it addresses nothing when an ID has a '.', the aggregate
\* holding no attribute of such a name
Named(scope_id, object_id) == Len(scope_id) = 1 /\ Len(object_id) = 1

NamedPath(kind, scope_id, object_id) ==
  <<"scopes", scope_id[1], Collection(kind), object_id[1]>>

\* q lies below r in the document
Under(q, r) == Len(q) > Len(r) /\ SubSeq(q, 1, Len(r)) = r

\* SET path = :value of an entity
Put(d, path, value) ==
  [p \in DOMAIN d \cup {path} |-> IF p = path THEN value ELSE d[p]]

\* SET scopes.#scopeId = :value: the scope entry is the value, the maps
\* nested in the entry are the (empty) maps of the value
PutScope(d, path, value) ==
  [p \in { q \in DOMAIN d : ~Under(q, path) } \cup {path} |->
     IF p = path THEN value ELSE d[p]]

\* REMOVE of the listed paths
Removed(d, paths) == [p \in DOMAIN d \ paths |-> d[p]]

\* a document path leads to an attribute of the aggregate: an entity, or a
\* field of one
Resolves(d, path) ==
  \/ path \in DOMAIN d
  \/ /\ Len(path) > 1
     /\ SubSeq(path, 1, Len(path) - 1) \in DOMAIN d
     /\ path[Len(path)] \in DOMAIN d[SubSeq(path, 1, Len(path) - 1)]

\* an issue with a status taken from the request body
IssueObjectStatusOfBody(scope_id, object_id, body, day) ==
  ("scopeId" :> Str(scope_id[1])) @@ ("issueId" :> Str(object_id[1]))
    @@ ("issueName" :> body["issueName"])
    @@ ("criticality" :> body["criticality"])
    @@ ("dueDate" :> body["dueDate"])
    @@ ("status" :> IF "status" \in DOMAIN body THEN body["status"] ELSE Str("open"))
    @@ ("lastUpdated" :> Str(DateText(day)))

\* dynamo_object of create_new_issue (the other descriptive fields are
\* copied from the arguments like issueName)
IssueObject(scope_id, object_id, body, day) ==
  ("scopeId" :> Str(scope_id[1])) @@ ("issueId" :> Str(object_id[1]))
    @@ ("issueName" :> body["issueName"])
    @@ ("criticality" :> body["criticality"])
    @@ ("dueDate" :> body["dueDate"])
    @@ ("status" :> Str("open"))
    @@ ("lastUpdated" :> Str(DateText(day)))

\* dynamo_object of create_new_scope, its nested maps apart
ScopeObject(object_id, day) ==
  ("scopeId" :> Str(object_id[1])) @@ ("scopeName" :> Str("n1"))
    @@ ("creationDate" :> Str(DateText(day)))
    @@ ("lastUpdated" :> Str(DateText(day)))
    @@ ("status" :> Str("pending"))

\* the operation has returned
Served(name, scope_id, object_id, applied, pair, response, code) ==
  [NoOp EXCEPT !.n = op.n + 1, !.name = name, !.scope_id = scope_id,
     !.object_id = object_id, !.applied = applied, !.pair = pair,
     !.response = response, !.code = code]

\* the calls of the operation that did not succeed
Env(outcomes) == { outcomes[i] : i \in DOMAIN outcomes } \ {"ok"}

\* the exception the first failing step raises, "none" when none does
FirstRaised(steps) ==
  IF \A i \in DOMAIN steps : steps[i] = "none" THEN "none"
  ELSE steps[CHOOSE i \in DOMAIN steps :
               steps[i] # "none" /\ \A j \in 1..(i - 1) : steps[j] = "none"]

\* a call's outcome as the exception it raises
RaisedBy(o) == IF o \in {"ok", "status400"} THEN "none" ELSE o

\* create_new_issue behind POST /issues/<customerId>/<projectId>/<scopeId>
create_new_issue(scope_id, object_id, body, o_read, o_email, o_write, o_audit) ==
  LET project == read_single_item(doc, Root)
      w == IF ~ValidPlaceholder(object_id) \/ ~Named(scope_id, object_id)
           THEN "ValidationException"
           ELSE IF <<"scopes", scope_id[1]>> \notin DOMAIN doc
                THEN "ValidationException"
                ELSE o_write
      e == FirstRaised(<< RaisedBy(o_read),
                          IF project = None THEN "TypeError" ELSE "none",
                          RaisedBy(o_email), RaisedBy(w), RaisedBy(o_audit) >>)
      before_write == FirstRaised(<< RaisedBy(o_read),
                          IF project = None THEN "TypeError" ELSE "none",
                          RaisedBy(o_email) >>) = "none"
      written == before_write /\ w = "ok"
      workflow == update_workflows(Token, "Create",
                    { <<"Created new issue", body["issueName"][2]>> },
                    ProjectId, object_id[1], uuid + 1, today)
  IN /\ op.n < MaxOps
     /\ doc' = IF written
               THEN Put(doc, NamedPath("issue", scope_id, object_id),
                        IssueObject(scope_id, object_id, body, today))
               ELSE doc
     /\ IF e = "none"
        THEN /\ workflows' = create_item(workflows, workflow)
             /\ uuid' = uuid + 1
             /\ op' = [Served("create_new_issue", scope_id, object_id, written,
                              TRUE, "New issue created successfully", 200)
                         EXCEPT !.body = body, !.audit = uuid + 1,
                                !.env = Env(<<o_read, o_email, o_write, o_audit>>),
                                !.value = IF written
                                          THEN IssueObject(scope_id, object_id, body, today)
                                          ELSE None]
        ELSE /\ UNCHANGED workflows
             /\ uuid' = IF before_write /\ RaisedBy(w) = "none" THEN uuid + 1 ELSE uuid
             /\ op' = [Served("create_new_issue", scope_id, object_id, written,
                              TRUE, exception_handler(e)[1], exception_handler(e)[2])
                         EXCEPT !.body = body,
                                !.env = Env(<<o_read, o_email, o_write, o_audit>>),
                                !.value = IF written
                                          THEN IssueObject(scope_id, object_id, body, today)
                                          ELSE None]
     /\ UNCHANGED <<pathcall, diffcall, today, call, listing, updates,
                    appended, faulted, writes>>

\* create_new_scope behind POST /scopes/<customerId>/<projectId>
create_new_scope(object_id, team_members, o_read, o_email, o_write, o_audit) ==
  LET project == read_single_item(doc, Root)
      w == IF ~ValidPlaceholder(object_id) THEN "ValidationException" ELSE o_write
      before_write == FirstRaised(<< RaisedBy(o_read),
                          IF project = None THEN "TypeError" ELSE "none",
                          RaisedBy(o_email) >>) = "none"
      e == FirstRaised(<< RaisedBy(o_read),
                          IF project = None THEN "TypeError" ELSE "none",
                          RaisedBy(o_email), RaisedBy(w), RaisedBy(o_audit) >>)
      written == before_write /\ w = "ok"
      path == <<"scopes", object_id[1]>>
      members == { path \o <<"teamMembers", team_members[i]["userId"][2]>> :
                     i \in DOMAIN team_members }
      stored == PutScope(doc, path, ScopeObject(object_id, today))
      workflow == update_workflows(Token, "Create", { <<"Created new scope", "n1">> },
                    ProjectId, object_id[1], uuid + 1, today)
  IN /\ op.n < MaxOps
     /\ doc' = IF written
               THEN [p \in DOMAIN stored \cup members |->
                       IF p \in members THEN Member(p[4]) ELSE stored[p]]
               ELSE doc
     /\ IF e = "none"
        THEN /\ workflows' = create_item(workflows, workflow)
             /\ uuid' = uuid + 1
             /\ op' = [Served("create_new_scope", object_id, object_id, written,
                              TRUE, "New scope created successfully", 200)
                         EXCEPT !.audit = uuid + 1,
                                !.env = Env(<<o_read, o_email, o_write, o_audit>>)]
        ELSE /\ UNCHANGED workflows
             /\ uuid' = IF before_write /\ RaisedBy(w) = "none" THEN uuid + 1 ELSE uuid
             /\ op' = [Served("create_new_scope", object_id, object_id, written,
                              TRUE, exception_handler(e)[1], exception_handler(e)[2])
                         EXCEPT !.env = Env(<<o_read, o_email, o_write, o_audit>>)]
     /\ UNCHANGED <<pathcall, diffcall, today, call, listing, updates,
                    appended, faulted, writes>>

\* get_issue_details behind GET /issues/.../<scopeId>/<issuesId>
get_issue_details(scope_id, issues_id, o_read) ==
  LET path == projection_expression("issue", scope_id, issues_id)
      e == FirstRaised(<< RaisedBy(o_read),
                          IF Resolves(doc, path) /\ ~Named(scope_id, issues_id)
                          THEN "KeyError" ELSE "none" >>)
  IN /\ op.n < MaxOps
     /\ op' = [IF e # "none"
              THEN Served("get_issue_details", scope_id, issues_id, FALSE, TRUE,
                          exception_handler(e)[1], exception_handler(e)[2])
              ELSE IF Resolves(doc, path)
                   THEN Served("get_issue_details", scope_id, issues_id, FALSE,
                               TRUE, doc[path], 200)
                   ELSE Served("get_issue_details", scope_id, issues_id, FALSE,
                               TRUE, <<>>, 404)
          EXCEPT !.env = Env(<<o_read>>)]
     /\ UNCHANGED <<pathcall, diffcall, doc, workflows, today, uuid, call,
                    listing, updates, appended, faulted, writes>>

\* delete_existing_issues(token, customer_id, project_id, issues)
delete_existing_issues(issues, o_read, o_write) ==
  LET project == read_single_item(doc, Root)
      w == IF Len(issues) = 0 \/ project = None THEN "ValidationException"
           ELSE IF "issues" \notin DOMAIN project THEN "ValidationException"
           ELSE o_write
      e == FirstRaised(<< RaisedBy(o_read), RaisedBy(w), "TypeError" >>)
  IN /\ op.n < MaxOps
     /\ op' = [Served("delete_existing_issues", <<>>, issues, FALSE, TRUE,
                      exception_handler(e)[1], exception_handler(e)[2])
                 EXCEPT !.env = Env(<<o_read, o_write>>)]
     /\ UNCHANGED <<pathcall, diffcall, doc, workflows, today, uuid, call,
                    listing, updates, appended, faulted, writes>>

\* route DELETE /issues/<customerId>/<projectId>/<scopeId>: the service is
\* called with a scope_id it has no parameter for
delete_issue(scope_id, issues) ==
  /\ op.n < MaxOps
  /\ op' = Served("delete_issue", scope_id, issues, FALSE, TRUE,
                  exception_handler("TypeError")[1], exception_handler("TypeError")[2])
  /\ UNCHANGED <<pathcall, diffcall, doc, workflows, today, uuid, call,
                 listing, updates, appended, faulted, writes>>

\* remove_scope_members behind DELETE /scopes/members/.../<scopeId>
remove_scope_members(scope_id, team_members, o_read, o_email, o_write, o_audit) ==
  LET project == read_single_item(doc, Root)
      parent == Joined(Joined(<<"scopes">>, scope_id), <<"teamMembers">>)
      paths == { Joined(parent, <<team_members[i]["userId"][2]>>) :
                   i \in DOMAIN team_members }
      w == IF Len(team_members) = 0 THEN "ValidationException"
           ELSE IF Len(scope_id) # 1 \/ <<"scopes", scope_id[1]>> \notin DOMAIN doc
                THEN "ValidationException"
                ELSE o_write
      before_write == FirstRaised(<< RaisedBy(o_read),
                          IF project = None THEN "TypeError" ELSE "none",
                          RaisedBy(o_email) >>) = "none"
      e == FirstRaised(<< RaisedBy(o_read),
                          IF project = None THEN "TypeError" ELSE "none",
                          RaisedBy(o_email), RaisedBy(w), RaisedBy(o_audit) >>)
      written == before_write /\ w = "ok"
      workflow == update_workflows(Token, "Remove",
                    { <<"removed", team_members[i]["name"][2],
                        team_members[i]["email"][2]>> : i \in DOMAIN team_members },
                    ProjectId, scope_id[1], uuid + 1, today)
  IN /\ op.n < MaxOps
     /\ doc' = IF written THEN Removed(doc, paths) ELSE doc
     /\ IF e = "none"
        THEN /\ workflows' = create_item(workflows, workflow)
             /\ uuid' = uuid + 1
             /\ op' = [Served("remove_scope_members", scope_id, <<>>, written,
                              FALSE, "Successfully removed from project", 0)
                         EXCEPT !.audit = uuid + 1,
                                !.env = Env(<<o_read, o_email, o_write, o_audit>>)]
        ELSE /\ UNCHANGED workflows
             /\ uuid' = IF before_write /\ RaisedBy(w) = "none" THEN uuid + 1 ELSE uuid
             /\ op' = [Served("remove_scope_members", scope_id, <<>>, written,
                              TRUE, exception_handler(e)[1], exception_handler(e)[2])
                         EXCEPT !.env = Env(<<o_read, o_email, o_write, o_audit>>)]
     /\ UNCHANGED <<pathcall, diffcall, today, call, listing, updates,
                    appended, faulted, writes>>

\* the single-item operations one after the other on the stored aggregate,
\* get_workflows between them
InitOps ==
  /\ Fresh(CreateDoc)
  /\ diffcall = NoDiffCall
  /\ pathcall = NoPathCall
  /\ op = NoOp

\* the outcomes of the four calls of one operation (read, mail, write,
\* audit append): all succeed, or one of them fails
OutcomeVectors ==
  { v \in ReadOutcomes \X EmailOutcomes \X WriteOutcomes \X ReadOutcomes :
      Cardinality({ i \in 1..4 : v[i] # "ok" }) <= 1 }

Succeeding == <<"ok", "ok", "ok", "ok">>

\* requests to create an issue: every tuple of IDs and every body with all
\* calls succeeding, and a new issue in a stored scope under every outcome
IssueCalls ==
  { <<scope_id, object_id, body, Succeeding>> :
      scope_id \in OpScopeIds, object_id \in OpIssueIds, body \in IssueBodies }
  \cup { <<<<"s1">>, <<NewId>>, body, v>> : body \in IssueBodies, v \in OutcomeVectors }

\* requests to create a scope: every ID with all calls succeeding, and a
\* stored ID under every outcome
ScopeCalls ==
  { <<object_id, team_members, Succeeding>> :
      object_id \in NewScopeIds, team_members \in TeamMembers }
  \cup { <<<<"s1">>, <<>>, v>> : v \in OutcomeVectors }

\* requests to remove scope members
MemberCalls ==
  { <<scope_id, team_members, Succeeding>> :
      scope_id \in OpScopeIds, team_members \in TeamMembers }
  \cup { <<<<"s1">>, <<Member(UserId)>>, v>> : v \in OutcomeVectors }

\* issues created, scopes created and issues read one after the other on
\* the stored aggregate
NextOps ==
  /\ op.n < MaxOps
  /\ \/ \E r \in IssueCalls :
          create_new_issue(r[1], r[2], r[3], r[4][1], r[4][2], r[4][3], r[4][4])
     \/ \E r \in ScopeCalls :
          create_new_scope(r[1], r[2], r[3][1], r[3][2], r[3][3], r[3][4])
     \/ \E scope_id \in OpScopeIds : \E issues_id \in OpIssueIds :
          \E o_read \in ReadOutcomes : get_issue_details(scope_id, issues_id, o_read)

SpecOps == InitOps /\ [][NextOps]_vars

\* issues deleted, scope members removed and issues read one after the
\* other on the stored aggregate
NextRemove ==
  /\ op.n < MaxOps
  /\ \/ \E issues \in IssueLists : \E o_read \in ReadOutcomes :
          \E o_write \in WriteOutcomes : delete_existing_issues(issues, o_read, o_write)
     \/ \E scope_id \in OpScopeIds : \E issues \in IssueLists :
          delete_issue(scope_id, issues)
     \/ \E r \in MemberCalls :
          remove_scope_members(r[1], r[2], r[3][1], r[3][2], r[3][3], r[3][4])
     \/ \E scope_id \in OpScopeIds : \E issues_id \in OpIssueIds :
          \E o_read \in ReadOutcomes : get_issue_details(scope_id, issues_id, o_read)

SpecRemove == InitOps /\ [][NextRemove]_vars

\* typeId of GET /workflows: entities the operations write records about
OpTypeIds == {"e1", NewId, "s1"}

\* operations that append audit records, no call failing, on one day or
\* another, and get_workflows after them
NextView ==
  \/ /\ op.n < MaxOps
     /\ \/ \E object_id \in {<<"e1">>, <<NewId>>} : \E body \in IssueBodies :
             create_new_issue(<<"s1">>, object_id, body, "ok", "ok", "ok", "ok")
        \/ create_new_scope(<<"s1">>, <<Member(UserId)>>, "ok", "ok", "ok", "ok")
        \/ remove_scope_members(<<"s1">>, <<Member(UserId)>>, "ok", "ok", "ok", "ok")
  \/ \E type_id \in OpTypeIds : \E actions \in QueryActions :
       GetWorkflows(type_id, actions)
  \/ Tick

SpecView == InitOps /\ [][NextView]_vars


(* ---------------------------- properties ------------------------------- *)
Range(seq) == { seq[j] : j \in DOMAIN seq }

\* the invocation has returned from a bulk update of the five batch services
ReturnedBulk(c) == call[c].pc = "done" /\ call[c].kind \in BulkKinds

\* C1: a bulk update that returns {success, fail} returns 200 iff success is
\* non-empty and fail empty, 403 iff success is empty and fail non-empty,
\* 405 iff both are non-empty, 304 iff both are empty; one of the four codes
\* always applies.
C1_FourWayClassification ==
  \A c \in Invocations :
    call[c].result.tag = "batch" =>
      LET s == call[c].result.success
          f == call[c].result.fail
          code == call[c].result.code
      IN /\ code \in {200, 403, 405, 304}
         /\ code = 200 <=> (s # <<>> /\ f = <<>>)
         /\ code = 403 <=> (s = <<>> /\ f # <<>>)
         /\ code = 405 <=> (s # <<>> /\ f # <<>>)
         /\ code = 304 <=> (s = <<>> /\ f = <<>>)

\* a batch with one updated and one rejected item has returned 405
C1_Witness ==
  \E c \in Invocations :
    /\ call[c].result.tag = "batch"
    /\ call[c].result.code = 405
    /\ call[c].result.success # <<>>
    /\ call[c].result.fail # <<>>

\* C2: a failure of the merge-update or of the audit append for one item does
\* not stop the bulk update: the remaining items are processed and the call
\* returns a {success, fail} classification.
C2_NoFailFast ==
  \A c \in Invocations :
    (ReturnedBulk(c) /\ faulted[c] \in {"update", "audit"}) =>
      /\ call[c].result.tag = "batch"
      /\ call[c].i > Len(call[c].items)

\* C3: in a bulk update every item whose merge-update errored or returned a
\* status outside 200-299 is in the returned fail list, and every other
\* updated item is in the returned success list.
C3_FailedItemsInFail ==
  \A c \in Invocations :
    ReturnedBulk(c) =>
      \A j \in DOMAIN updates[c] :
        LET id == EntityId(call[c].kind, updates[c][j].item)
        IN /\ call[c].result.tag = "batch"
           /\ IF updates[c][j].applied
              THEN id \in Range(call[c].result.success)
              ELSE id \in Range(call[c].result.fail)

\* C4: after a bulk update returns, the entities whose stored fields the call
\* changed are exactly the IDs of the returned success list.
C4_ChangedEqualsSuccess ==
  \A c \in Invocations :
    ReturnedBulk(c) =>
      { EntityId(call[c].kind, updates[c][j].item) :
          j \in { x \in DOMAIN updates[c] : updates[c][x].applied } }
        = Range(call[c].result.success)


\* the invocation has returned and none of its store calls failed
Clean(c) == call[c].pc = "done" /\ faulted[c] = "none"

\* the business fields of an item: its keys but the IDs and the timestamp
BusinessKeys(kind, item) == DOMAIN item \ (IdKeys(kind) \cup {StampKey(kind)})

\* positions of the batch of c that address path p and carry field f
Writing(c, p, f) ==
  { j \in DOMAIN call[c].items :
      /\ Path(call[c].kind, call[c].items[j]) = p
      /\ f \in BusinessKeys(call[c].kind, call[c].items[j]) }

\* the business fields c writes at path p
WrittenFields(c, p) == { f \in {"criticality", "dueDate"} : Writing(c, p, f) # {} }

Highest(S) == CHOOSE m \in S : \A x \in S : x <= m

\* the value c sends last for field f at path p
LastValue(c, p, f) == call[c].items[Highest(Writing(c, p, f))][f]

\* the last merge-update the store applied to field f at path p
LastWrite(p, f) ==
  writes[Highest({ j \in DOMAIN writes :
                     writes[j].path = p /\ f \in DOMAIN writes[j].item })]

\* C5: two invocations that update disjoint business fields of the same
\* entity both report it in success, and the stored entity holds the new
\* value of every field either of them wrote, under every interleaving.
C5_DisjointFieldsBothKept ==
  \A c1, c2 \in Invocations :
    (c1 # c2 /\ Clean(c1) /\ Clean(c2)) =>
      \A p \in DOMAIN doc :
        (/\ WrittenFields(c1, p) # {} /\ WrittenFields(c2, p) # {}
         /\ WrittenFields(c1, p) \cap WrittenFields(c2, p) = {}) =>
          /\ p[Len(p)] \in Range(call[c1].result.success)
          /\ p[Len(p)] \in Range(call[c2].result.success)
          /\ \A f \in WrittenFields(c1, p) : doc[p][f] = LastValue(c1, p, f)
          /\ \A f \in WrittenFields(c2, p) : doc[p][f] = LastValue(c2, p, f)

\* both returned after writing disjoint fields of one entity, and the second
\* writer had read the entity before the first one wrote
C5_Witness ==
  \E c1, c2 \in Invocations : \E p \in DOMAIN doc :
    /\ c1 # c2 /\ Clean(c1) /\ Clean(c2)
    /\ WrittenFields(c1, p) # {} /\ WrittenFields(c2, p) # {}
    /\ WrittenFields(c1, p) \cap WrittenFields(c2, p) = {}
    /\ call[c2].previous_item # None
    /\ \E f \in WrittenFields(c1, p) : call[c2].previous_item[f] # doc[p][f]
    /\ p[Len(p)] \in Range(call[c2].result.success)

\* C6: two invocations that update the same field of the same entity with
\* different values are both accepted and both report success; the stored
\* value is the one of the merge-update the store applied last.
C6_SameFieldLastWriteWins ==
  \A c1, c2 \in Invocations :
    (c1 # c2 /\ Clean(c1) /\ Clean(c2)) =>
      \A p \in DOMAIN doc :
        \A f \in WrittenFields(c1, p) \cap WrittenFields(c2, p) :
          LastValue(c1, p, f) # LastValue(c2, p, f) =>
            /\ call[c1].result.tag = "batch" /\ call[c2].result.tag = "batch"
            /\ p[Len(p)] \in Range(call[c1].result.success)
            /\ p[Len(p)] \in Range(call[c2].result.success)
            /\ call[c1].result.fail = <<>> /\ call[c2].result.fail = <<>>
            /\ doc[p][f] = LastWrite(p, f).item[f]

\* both returned after writing different values to one field, both having
\* read the entity before either wrote
C6_Witness ==
  \E c1, c2 \in Invocations : \E p \in DOMAIN doc :
    \E f \in WrittenFields(c1, p) \cap WrittenFields(c2, p) :
      /\ c1 # c2 /\ Clean(c1) /\ Clean(c2)
      /\ LastValue(c1, p, f) # LastValue(c2, p, f)
      /\ Len(updates[c1]) = 1 /\ Len(updates[c2]) = 1
      /\ updates[c1][1].previous[f] = updates[c2][1].previous[f]
      /\ doc[p][f] = LastValue(c2, p, f)
      /\ LastWrite(p, f).by = c2

\* the update_item calls of c that were applied with a non-empty diff
ChangedItems(c) ==
  { j \in DOMAIN updates[c] :
      /\ updates[c][j].applied
      /\ generate_differences_message(updates[c][j].previous,
                                      updates[c][j].item) # {} }

\* C7: in a bulk update of any kind, each item whose merge-update was applied
\* and whose diff is non-empty yields exactly one audit record with action
\* Update, its own ID as typeId and its own diff as meta, and the call
\* appends as many records as there are such items (stated for invocations
\* in which no store call failed).
C7_OneAuditPerChangedItem ==
  \A c \in Invocations :
    (Clean(c) /\ call[c].kind \in Kinds) =>
      /\ Cardinality(appended[c]) = Cardinality(ChangedItems(c))
      /\ \A j \in ChangedItems(c) : \E k \in appended[c] :
           /\ workflows[k].action = "Update"
           /\ workflows[k].typeId = EntityId(call[c].kind, updates[c][j].item)
           /\ workflows[k].meta =
                generate_differences_message(updates[c][j].previous,
                                             updates[c][j].item)

\* the step of c that follows its merge-update: the diff and the audit append
AuditStep(c) ==
  \/ /\ call[c].pc = "audit" /\ call'[c].pc # "audit"
  \/ /\ call[c].kind = "docreq" /\ call[c].pc = "loop"
     /\ call[c].i > Len(call[c].items) /\ call[c].items # <<>>
     /\ call[c].previous_item # None /\ call'[c].pc = "done"

\* C8: when the diff of a mutation is empty, no audit record is constructed
\* and nothing is written to the Workflows store by that mutation.
C8_EmptyDiffWritesNothing ==
  [][\A c \in Invocations :
       (/\ AuditStep(c)
        /\ generate_differences_message(call[c].previous_item, call[c].item) = {})
         => (workflows' = workflows /\ uuid' = uuid)]_vars

\* an update with an empty diff was applied and reported, and the call
\* appended nothing
C8_Witness ==
  \E c \in Invocations :
    /\ Clean(c)
    /\ \E j \in DOMAIN updates[c] :
         /\ updates[c][j].applied
         /\ generate_differences_message(updates[c][j].previous,
                                         updates[c][j].item) = {}
    /\ appended[c] = {}
    /\ workflows = <<>>

\* C9: an applied update of an issue that changes criticality from low to high
\* and repeats its dueDate has a diff of exactly the criticality message,
\* whatever the prior state of the issue, and appends one Update record.
C9_CriticalityOnlyMessage ==
  \A c \in Invocations :
    call[c].kind = "issue" =>
      \A j \in DOMAIN updates[c] :
        LET u == updates[c][j]
        IN (/\ u.applied
            /\ "dueDate" \in DOMAIN u.item
            /\ u.item["dueDate"] = u.previous["dueDate"]
            /\ u.previous["criticality"] = Str("low")
            /\ u.item["criticality"] = Str("high")) =>
             /\ generate_differences_message(u.previous, u.item) =
                  { << <<"c","r","i","t","i","c","a","l","i","t","y">>,
                       "low", "high" >> }
             /\ (Clean(c) /\ Len(updates[c]) = 1) =>
                  /\ Cardinality(appended[c]) = 1
                  /\ \A k \in appended[c] : workflows[k].action = "Update"

\* C10: the audit log is append-only: every record once written stays in the
\* Workflows store with unchanged fields, whatever operation runs,
\* get_workflows included.
C10_AuditLogAppendOnly ==
  [][\A k \in DOMAIN workflows :
       k \in DOMAIN workflows' /\ workflows'[k] = workflows[k]]_vars

\* two records were appended one after the other and get_workflows has
\* listed records
C10_Witness ==
  /\ Cardinality(DOMAIN workflows) >= 2
  /\ listing # <<>>

(* ---------------------------- properties of the diff engine ----------- *)
\* the diff engine has returned
Returned == diffcall.pc = "returned"

\* the shared keys of the two arguments
SharedKeys == get_common_keys(diffcall.dict_a, diffcall.dict_b)

\* the messages of the returned list
ReturnedSet == { diffcall.message[j] : j \in DOMAIN diffcall.message }

\* C11: generate_differences_message(X, X) returns the empty list for
\* every map X, with text values and with values that are not text.
C11_DiffOfSelfIsEmpty ==
  (Returned /\ diffcall.dict_a = diffcall.dict_b) => diffcall.message = <<>>

\* the diff of a map against itself has returned, the map holding a list
\* under a key that is not excluded
C11_Witness ==
  /\ Returned
  /\ diffcall.dict_a = diffcall.dict_b
  /\ \E k \in DOMAIN diffcall.dict_a \ ExcludedKeys :
       diffcall.dict_a[k] = EmptyList
  /\ diffcall.message = <<>>

\* C12: no identifier field present in both maps (the entity's own ID of
\* any kind, or an ancestor's ID such as projectId and customerId) produces
\* a message, even when its two values differ.
C12_NoIdentifierMessage ==
  Returned =>
    \A k \in AllIdKeys \cap SharedKeys :
      \A m \in ReturnedSet : m[1] # Label(k)

\* C13: the returned list holds no message twice, and holds every message
\* the loop appended.
C13_NoDuplicateMessages ==
  Returned =>
    /\ \A i, j \in DOMAIN diffcall.message :
         i # j => diffcall.message[i] # diffcall.message[j]
    /\ ReturnedSet =
         { AppendedMessages(diffcall.dict_a, diffcall.dict_b)[j] :
             j \in DOMAIN AppendedMessages(diffcall.dict_a, diffcall.dict_b) }
    /\ ReturnedSet =
         generate_differences_message(diffcall.dict_a, diffcall.dict_b)

\* two changed fields gave the same message and the returned list holds it
\* once
C13_Witness ==
  /\ Returned
  /\ Cardinality(ChangedKeys(diffcall.dict_a, diffcall.dict_b)) = 2
  /\ Len(AppendedMessages(diffcall.dict_a, diffcall.dict_b)) = 2
  /\ Len(diffcall.message) = 1

ExpectedMessage(k) ==
  IF isinstance_str(diffcall.dict_a[k]) /\ isinstance_str(diffcall.dict_b[k])
  THEN <<Label(k), diffcall.dict_a[k][2], diffcall.dict_b[k][2]>>
  ELSE <<Label(k)>>

\* C15: a changed shared field that is no identifier gives the message with
\* the old and the new value exactly when both values are text, and the
\* message without values when at least one of them is not text.
C15_ValuesShownIffBothText ==
  Returned =>
    /\ \A k \in SharedKeys \ AllIdKeys :
         ~PyEq(diffcall.dict_a[k], diffcall.dict_b[k])
           => ExpectedMessage(k) \in ReturnedSet
    /\ \A m \in ReturnedSet :
         \E k \in SharedKeys : m = ExpectedMessage(k)

\* a field changed from text to a value that is not text and the message
\* carries no values
C15_Witness ==
  /\ Returned
  /\ \E k \in SharedKeys \ AllIdKeys :
       /\ isinstance_str(diffcall.dict_a[k])
       /\ ~isinstance_str(diffcall.dict_b[k])
       /\ diffcall.message = << <<Label(k)>> >>

(* ---------------------------- properties of batches ------------------- *)
\* positions of the batch of c whose entity is stored / is absent
PresentItems(c) ==
  { j \in DOMAIN call[c].items :
      Path(call[c].kind, call[c].items[j]) \in DOMAIN doc }
AbsentItems(c) == DOMAIN call[c].items \ PresentItems(c)

\* C16: in a bulk update an item whose entity is absent is skipped: its ID
\* is in neither list, it causes no merge-update and no audit record, and
\* the other items are processed; with stored and absent items the call
\* returns 200 with the stored ones in success and fail empty, with absent
\* items only it returns 304 with both lists empty.
C16_AbsentItemsSkipped ==
  \A c \in Invocations :
    (ReturnedBulk(c) /\ Clean(c)) =>
      LET kind == call[c].kind
          items == call[c].items
          id(j) == EntityId(kind, items[j])
      IN /\ call[c].result.tag = "batch"
         /\ call[c].result.fail = <<>>
         /\ Range(call[c].result.success) = { id(j) : j \in PresentItems(c) }
         /\ Len(call[c].result.success) = Cardinality(PresentItems(c))
         /\ \A j \in AbsentItems(c) :
              /\ id(j) \notin Range(call[c].result.success)
              /\ \A w \in DOMAIN writes : writes[w].path # Path(kind, items[j])
              /\ \A k \in DOMAIN workflows : workflows[k].typeId # id(j)
         /\ call[c].result.code = IF PresentItems(c) = {} THEN 304 ELSE 200

\* a batch of two stored entities after an absent one has returned 200 with
\* the two stored IDs
C16_Witness ==
  \E c \in Invocations :
    /\ ReturnedBulk(c) /\ Clean(c)
    /\ call[c].kind = "milestone"
    /\ Len(call[c].items) = 3
    /\ 1 \in AbsentItems(c)
    /\ call[c].result.success = <<"e1", "e2">>
    /\ call[c].result.fail = <<>>
    /\ call[c].result.code = 200

\* C17: update_request_document_details returns success and fail lists with
\* the four-way status code like the other bulk updates, 304 included for an
\* empty batch and for a batch whose last item is absent.
C17_DocRequestBatchContract ==
  \A c \in Invocations :
    (Clean(c) /\ call[c].kind = "docreq") =>
      /\ call[c].result.tag = "batch"
      /\ call[c].result.code =
           Classify(call[c].result.success, call[c].result.fail)
      /\ PresentItems(c) = {} => call[c].result.code = 304

\* C18: a bulk update addressed to an aggregate that is not stored returns
\* the Not Found (404) error value, no batch classification, and writes
\* nothing to the aggregate or the audit log.
C18_AbsentAggregateNotFound ==
  \A c \in Invocations :
    (call[c].pc = "done" /\ call[c].kind \in BulkKinds /\ Root \notin DOMAIN doc) =>
      /\ call[c].result.tag = "error"
      /\ call[c].result.code = 404
      /\ writes = <<>>
      /\ workflows = <<>>

\* C19: a request whose credential failed validation writes no audit record
\* and performs no mutation: every actor of an audit record comes from a
\* validated credential.
C19_OnlyValidatedCredentialsWrite ==
  /\ \A k \in DOMAIN workflows :
       validate_token(workflows[k].username)[1] = "Authorized"
  /\ \A c \in Invocations :
       validate_token(call[c].token)[1] # "Authorized" =>
         /\ appended[c] = {}
         /\ \A w \in DOMAIN writes : writes[w].by # c

\* C20: the projectId and customerId stored in the aggregate stay the ones
\* it was created with, whatever operations run, update_project_info with
\* any field set included.
C20_ProjectKeysImmutable ==
  /\ doc[Root]["projectId"] = Str("p1")
  /\ doc[Root]["customerId"] = Str("c1")

\* update_project_info was called with another projectId or customerId and
\* has returned the validation error
C20_Witness ==
  \E c \in Invocations :
    /\ call[c].pc = "done"
    /\ call[c].kind = "project"
    /\ DOMAIN call[c].items[1] \cap KeyAttributes # {}
    /\ faulted[c] = "none"
    /\ call[c].result.code = 400
    /\ writes = <<>>

(* ---------------------------- properties of nested paths --------------- *)
\* C22: the nested path string 'scopes.<scopeId>.<collection>.<entityId>' is
\* injective and stable: two (scopeId, entityId) tuples get the same path
\* string exactly when they are the same tuple, for every ID string a caller
\* may send, IDs containing '.' included.
C22_PathInjectiveAndStable ==
  pathcall.pc = "built" =>
    (pathcall.paths[1] = pathcall.paths[2] <=> pathcall.first = pathcall.second)

(* ---------------------------- properties of single-item operations ----- *)
\* the last operation ran with no call of it failing
Undisturbed == op.env = {}

C23_NewIssueIsOpen ==
  (op.name = "create_new_issue" /\ op.applied /\ op.code = 200) =>
    LET path == <<"scopes", op.scope_id[1], "issues", op.object_id[1]>>
    IN /\ Named(op.scope_id, op.object_id)
       /\ path \in DOMAIN doc
       /\ doc[path]["status"] = Str("open")
       /\ doc[path]["issueId"] = Str(path[4])
       /\ doc[path]["scopeId"] = Str(path[2])

C23_Witness ==
  /\ op.name = "create_new_issue"
  /\ op.applied
  /\ op.code = 200
  /\ "status" \in DOMAIN op.body
  /\ op.body["status"] = Str("closed")
  /\ op.object_id = <<NewId>>

\* the status codes of the single-item operations
StandardCodes == {200, 403, 404, 500}

\* C24: every single-item Entity Service operation returns a (response,
\* status code) pair on every path, with a status code from the standard
\* set; remove_scope_members returns status 200 on success, and
\* get_issue_details returns a pair when the scope holds no such issue.
C24_AlwaysAPair ==
  (op.name # "none" /\ Undisturbed) =>
    /\ op.pair
    /\ op.code \in StandardCodes
    /\ (op.name = "remove_scope_members" /\ op.applied) => op.code = 200

\* the issues of the list that are stored in scope s1
StoredIssues(d, issues) ==
  { i \in DOMAIN issues : <<"scopes", "s1", "issues", issues[i]>> \in DOMAIN d }

\* C26: delete_existing_issues called with a non-empty list of IDs of stored
\* issues removes each of them from the scope's issues map, appends one
\* 'Delete' audit record per ID and returns ('Project issues deleted
\* successfully', 200).
C26_DeleteRemovesIssues ==
  [][ ( /\ op'.name = "delete_existing_issues"
        /\ op'.n = op.n + 1
        /\ op'.env = {}
        /\ Len(op'.object_id) > 0
        /\ StoredIssues(doc, op'.object_id) = DOMAIN op'.object_id )
      => /\ op'.code = 200
         /\ op'.response = "Project issues deleted successfully"
         /\ StoredIssues(doc', op'.object_id) = {}
         /\ \A i \in DOMAIN op'.object_id :
              \E k \in DOMAIN workflows' \ DOMAIN workflows :
                /\ workflows'[k].action = "Delete"
                /\ workflows'[k].typeId = op'.object_id[i] ]_vars

\* C27: creating an entity leaves every entity already stored in the
\* aggregate unchanged: a create never replaces an existing entity nor
\* discards its nested collections, create_new_scope with a scopeId that is
\* already present included.
C27_CreateKeepsStoredEntities ==
  [][ ( /\ op'.name \in {"create_new_issue", "create_new_scope"}
        /\ op'.n = op.n + 1 )
      => \A p \in DOMAIN doc : p \in DOMAIN doc' /\ doc'[p] = doc[p] ]_vars

\* the number a string of digits writes
RECURSIVE NumberOf(_)
NumberOf(digits) ==
  IF digits = <<>> THEN 0
  ELSE 10 * NumberOf(SubSeq(digits, 1, Len(digits) - 1)) + digits[Len(digits)]

\* the stored audit records a query for type_id and actions asks for
Wanted(type_id, actions) ==
  { k \in DOMAIN workflows :
      /\ workflows[k].typeId = type_id
      /\ actions = {} \/ workflows[k].action \in actions }

UpdateStep(c) == call[c].pc = "update" /\ call'[c].pc # "update"

C29_AuditFromIsReplacedValue ==
  [][ \A c \in Invocations :
        (UpdateStep(c) /\ doc' # doc) =>
          LET k == call[c].kind
              it == Stamped(k, call[c].items[call[c].i], today)
              path == Path(k, it)
          IN \A f \in ChangedKeys(call[c].previous_item, it) :
               call[c].previous_item[f] = doc[path][f]
    ]_vars

\* C30: every audit record follows an applied write: a record an operation
\* appended is about an entity whose aggregate write the same operation
\* applied, and no audit record exists for an item reported in fail.
C30_AuditFollowsAppliedWrite ==
  \A c \in Invocations :
    call[c].kind \in BulkKinds =>
      \A k \in appended[c] :
        /\ \E j \in DOMAIN updates[c] :
             /\ updates[c][j].applied
             /\ EntityId(call[c].kind, updates[c][j].item) = workflows[k].typeId
        /\ workflows[k].typeId \notin Range(call[c].fail)

====
